---- MODULE Spec2Model ----
(***************************************************************************)
(* A model of the kdmapi binding layer (src/src/lib.rs): the binding table *)
(* KDMAPIBinds with its is_stream_open flag, the stream handles            *)
(* KDMAPIStream it hands out, and the native calls the wrappers make.      *)
(* The native library is an environment: every native call returns a value *)
(* chosen from a small set, and is recorded in the trace `calls`.  Every   *)
(* call of the public API is recorded in the trace `api`.  Spec is the     *)
(* use of the loaded binding table; SpecLoad is the lazy initialization of *)
(* the statics KDMAPI_LIB and KDMAPI that comes before it.                 *)
(***************************************************************************)
EXTENDS Integers, Sequences, FiniteSets, TLC

\* Bounds of the model.
MaxHandles == 3        \* stream handles ever created
MaxCalls == 4          \* API calls ever made

\* Caller threads.  open_stream and drop take two steps each (the flag
\* access and the native call are separate), so threads can interleave.
Threads == {"t1", "t2"}
Handles == 1 .. MaxHandles

\* Inputs and native results, as small sets of values of the declared types.
\* (The wrappers pass u32 values through without arithmetic, so the values
\* stay within the checker's integers.)
DataValues == {0, 8339600}                   \* u32 payloads (0, 0x7F4090)
StatusValues == {0, 305419896}               \* u32 results of the send functions
InitResults == {-1, 0, 1}                    \* i32 results of InitializeKDMAPIStream
TermResults == {0, 1}                        \* i32 results of TerminateKDMAPIStream

VARIABLES
    is_stream_open,   \* KDMAPIBinds.is_stream_open (AtomicBool)
    pc,               \* per thread: "idle", "init" (inside open_stream, flag
                      \* loaded), "drop" (inside drop, terminate called),
                      \* "panicked"
    st,               \* per handle: "none", "alive", "terminated" (inside its
                      \* drop, before the store), "dropped"
    owner,            \* per handle: the thread that holds it
    calls,            \* trace of native calls: [fn, arg, res, via]
    api,              \* trace of API calls, each recorded when it returns or
                      \* panics: [op, h, arg, out, panic]
    overlapped        \* history: some open_stream returned a handle while
                      \* another thread was inside open_stream, its flag
                      \* load done and its native call still to make

\* The lazy statics KDMAPI_LIB and KDMAPI (lazy_static!): each is a cell
\* behind a Once that runs its initializer on the first access.
VARIABLES
    env,              \* the host: [libfile: the library loads,
                      \*            exports: the symbols it exports]
    lib_once,         \* the Once of KDMAPI_LIB: "new", "running", "done",
                      \* "poisoned" (its initializer panicked)
    binds_once,       \* the Once of KDMAPI
    table,            \* the cell of KDMAPI: << >>, or <<t>> with t the
                      \* binding table [binds, is_stream_open]
    partial,          \* the lookups done so far by a running
                      \* load_kdmapi_binds: <<field, symbol>> pairs
    lpc,              \* per thread: "out", "binds_init" (running KDMAPI's
                      \* initializer), "lib_init" (running KDMAPI_LIB's),
                      \* "resolving", "blocked" (on a running Once), "got"
                      \* (holds &KDMAPI), "panicked"
    loader            \* trace of the loads and lookups made:
                      \* "Library::new" and symbol names

streamVars == <<is_stream_open, pc, st, owner, calls, api, overlapped>>
loadVars == <<env, lib_once, binds_once, table, partial, lpc, loader>>
vars == <<is_stream_open, pc, st, owner, calls, api, overlapped,
          env, lib_once, binds_once, table, partial, lpc, loader>>

\* The binding table built by load_kdmapi_binds: field -> exported symbol.
\* (First, tables with one lookup naming the wrong symbol.)
KDMAPI_TerminateIsReset ==
    [is_kdmapi_available      |-> "IsKDMAPIAvailable",
     initialize_kdmapi_stream |-> "InitializeKDMAPIStream",
     terminate_kdmapi_stream  |-> "ResetKDMAPIStream",
     reset_kdmapi_stream      |-> "ResetKDMAPIStream",
     send_direct_data         |-> "SendDirectData",
     send_direct_data_no_buf  |-> "SendDirectDataNoBuf"]

KDMAPI_ResetIsTerminate ==
    [is_kdmapi_available      |-> "IsKDMAPIAvailable",
     initialize_kdmapi_stream |-> "InitializeKDMAPIStream",
     terminate_kdmapi_stream  |-> "TerminateKDMAPIStream",
     reset_kdmapi_stream      |-> "TerminateKDMAPIStream",
     send_direct_data         |-> "SendDirectData",
     send_direct_data_no_buf  |-> "SendDirectDataNoBuf"]

KDMAPI_AvailableIsInitialize ==
    [is_kdmapi_available      |-> "InitializeKDMAPIStream",
     initialize_kdmapi_stream |-> "InitializeKDMAPIStream",
     terminate_kdmapi_stream  |-> "TerminateKDMAPIStream",
     reset_kdmapi_stream      |-> "ResetKDMAPIStream",
     send_direct_data         |-> "SendDirectData",
     send_direct_data_no_buf  |-> "SendDirectDataNoBuf"]

KDMAPI_SendsSwapped ==
    [is_kdmapi_available      |-> "IsKDMAPIAvailable",
     initialize_kdmapi_stream |-> "InitializeKDMAPIStream",
     terminate_kdmapi_stream  |-> "TerminateKDMAPIStream",
     reset_kdmapi_stream      |-> "ResetKDMAPIStream",
     send_direct_data         |-> "SendDirectDataNoBuf",
     send_direct_data_no_buf  |-> "SendDirectData"]

KDMAPI ==
    [is_kdmapi_available      |-> "IsKDMAPIAvailable",
     initialize_kdmapi_stream |-> "InitializeKDMAPIStream",
     terminate_kdmapi_stream  |-> "TerminateKDMAPIStream",
     reset_kdmapi_stream      |-> "ResetKDMAPIStream",
     send_direct_data         |-> "SendDirectData",
     send_direct_data_no_buf  |-> "SendDirectDataNoBuf"]

\* AtomicBool::new(false) in load_kdmapi_binds.
InitialFlagTrue == TRUE

InitialFlag == FALSE

\* A native call through a binding, as recorded by the native side.
\* arg is -1 for a function without parameters; res is "void" for one
\* without a result.
NativeCall(fn, arg, res, via) ==
    [fn |-> fn, arg |-> arg, res |-> res, via |-> via]

\* An API call as the caller sees it: out is what the wrapper returned
\* (the new handle for open_stream, "void" for reset and drop).
ApiCall(op, h, arg, out, panicked) ==
    [op |-> op, h |-> h, arg |-> arg, out |-> out, panic |-> panicked]

\* `if result == 0 { panic!(...) }` in open_stream.
InitFailedNegative(result) == result < 0

InitFailed(result) == result = 0

\* The flag after open_stream's second step, from the flag before it and
\* whether the native initialize succeeded: open_stream holds no store, so
\* the flag is left as it was.  (First, an open_stream that sets the flag
\* before the native call and leaves it set, and one that sets it on
\* success.)
FlagSetBeforeInit(flag, ok) == TRUE

FlagSetOnSuccess(flag, ok) == IF ok THEN TRUE ELSE flag

FlagAfterOpenStream(flag, ok) == flag

\* The value drop stores into is_stream_open.
DropStoresTrue == TRUE

DropStoreValue == FALSE

\* The lookups of load_kdmapi_binds, in the order it makes them.
BindOrder ==
    << <<"is_kdmapi_available", "IsKDMAPIAvailable">>,
       <<"initialize_kdmapi_stream", "InitializeKDMAPIStream">>,
       <<"terminate_kdmapi_stream", "TerminateKDMAPIStream">>,
       <<"reset_kdmapi_stream", "ResetKDMAPIStream">>,
       <<"send_direct_data", "SendDirectData">>,
       <<"send_direct_data_no_buf", "SendDirectDataNoBuf">> >>

Symbols == {BindOrder[i][2] : i \in 1 .. Len(BindOrder)}

\* The KDMAPIBinds value load_kdmapi_binds builds from its lookups.
BuildBinds(found) ==
    [binds |-> [f \in {found[i][1] : i \in 1 .. Len(found)} |->
                   found[CHOOSE i \in 1 .. Len(found) : found[i][1] = f][2]],
     is_stream_open |-> InitialFlag]

\* The statics once both initializers have run: the state every use of
\* KDMAPI's methods starts from.
Loaded ==
    /\ env = [libfile |-> TRUE, exports |-> Symbols]
    /\ lib_once = "done"
    /\ binds_once = "done"
    /\ table = <<[binds |-> KDMAPI, is_stream_open |-> InitialFlag]>>
    /\ partial = BindOrder
    /\ lpc = [t \in Threads |-> "got"]
    /\ loader = <<"Library::new">> \o [i \in 1 .. Len(BindOrder) |-> BindOrder[i][2]]

\* The handle open_stream constructs: the first one not yet used.
FreshHandles == {h \in Handles : st[h] = "none"}
NextHandle == CHOOSE h \in FreshHandles : \A g \in FreshHandles : h <= g

Init ==
    /\ is_stream_open = InitialFlag
    /\ pc = [t \in Threads |-> "idle"]
    /\ st = [h \in Handles |-> "none"]
    /\ owner = [h \in Handles |-> "nobody"]
    /\ calls = << >>
    /\ api = << >>
    /\ overlapped = FALSE
    /\ Loaded

\* Room for one more API call within the model's bounds (a thread inside
\* open_stream or drop has its call still to record).
Room == Len(api) + Cardinality({u \in Threads : pc[u] \in {"init", "drop"}}) < MaxCalls

\* KDMAPIBinds::is_kdmapi_available
is_kdmapi_available(t, b) ==
    /\ pc[t] = "idle"
    /\ Room
    /\ calls' = Append(calls, NativeCall(KDMAPI.is_kdmapi_available, -1, b, 0))
    /\ api' = Append(api, ApiCall("is_kdmapi_available", 0, -1, b, FALSE))
    /\ UNCHANGED <<is_stream_open, pc, st, owner, overlapped>>
    /\ UNCHANGED loadVars

\* KDMAPIBinds::open_stream, first step: the relaxed load of the flag and
\* the panic when it is set.
open_stream_load(t) ==
    /\ pc[t] = "idle"
    /\ Room
    /\ Cardinality(FreshHandles) > Cardinality({u \in Threads : pc[u] = "init"})
    /\ IF is_stream_open
       THEN /\ pc' = [pc EXCEPT ![t] = "panicked"]
            /\ api' = Append(api, ApiCall("open_stream", 0, -1, 0, TRUE))
       ELSE /\ pc' = [pc EXCEPT ![t] = "init"]
            /\ api' = api
    /\ UNCHANGED <<is_stream_open, st, owner, calls, overlapped>>
    /\ UNCHANGED loadVars

\* KDMAPIBinds::open_stream, second step: the native initialize call, the
\* panic on a zero result, and the construction of the handle.
open_stream_init(t, result) ==
    /\ pc[t] = "init"
    /\ IF InitFailed(result)
       THEN /\ calls' = Append(calls,
                   NativeCall(KDMAPI.initialize_kdmapi_stream, -1, result, 0))
            /\ api' = Append(api, ApiCall("open_stream", 0, -1, 0, TRUE))
            /\ pc' = [pc EXCEPT ![t] = "panicked"]
            /\ UNCHANGED <<st, owner>>
       ELSE /\ calls' = Append(calls,
                   NativeCall(KDMAPI.initialize_kdmapi_stream, -1, result, NextHandle))
            /\ api' = Append(api,
                   ApiCall("open_stream", NextHandle, -1, NextHandle, FALSE))
            /\ pc' = [pc EXCEPT ![t] = "idle"]
            /\ st' = [st EXCEPT ![NextHandle] = "alive"]
            /\ owner' = [owner EXCEPT ![NextHandle] = t]
    /\ is_stream_open' = FlagAfterOpenStream(is_stream_open, ~InitFailed(result))
    /\ overlapped' = (\/ overlapped
                       \/ (~InitFailed(result) /\ \E u \in Threads \ {t} : pc[u] = "init"))
    /\ UNCHANGED loadVars

\* A panic of open_stream caught by the caller (catch_unwind): the thread
\* goes on.  Handles it holds outside the unwound frames stay alive.
CatchUnwind(t) ==
    /\ pc[t] = "panicked"
    /\ pc' = [pc EXCEPT ![t] = "idle"]
    /\ UNCHANGED <<is_stream_open, st, owner, calls, api, overlapped>>
    /\ UNCHANGED loadVars

\* The thread t can use handle h.
Holds(t, h) == pc[t] = "idle" /\ st[h] = "alive" /\ owner[h] = t

\* KDMAPIStream::reset
reset(t, h) ==
    /\ Holds(t, h)
    /\ Room
    /\ calls' = Append(calls, NativeCall(KDMAPI.reset_kdmapi_stream, -1, "void", h))
    /\ api' = Append(api, ApiCall("reset", h, -1, "void", FALSE))
    /\ UNCHANGED <<is_stream_open, pc, st, owner, overlapped>>
    /\ UNCHANGED loadVars

\* KDMAPIStream::send_direct_data
send_direct_data(t, h, data, res) ==
    /\ Holds(t, h)
    /\ Room
    /\ calls' = Append(calls, NativeCall(KDMAPI.send_direct_data, data, res, h))
    /\ api' = Append(api, ApiCall("send_direct_data", h, data, res, FALSE))
    /\ UNCHANGED <<is_stream_open, pc, st, owner, overlapped>>
    /\ UNCHANGED loadVars

\* KDMAPIStream::send_direct_data_no_buf
send_direct_data_no_buf(t, h, data, res) ==
    /\ Holds(t, h)
    /\ Room
    /\ calls' = Append(calls, NativeCall(KDMAPI.send_direct_data_no_buf, data, res, h))
    /\ api' = Append(api, ApiCall("send_direct_data_no_buf", h, data, res, FALSE))
    /\ UNCHANGED <<is_stream_open, pc, st, owner, overlapped>>
    /\ UNCHANGED loadVars

\* Drop for KDMAPIStream, first step: the native terminate call, whose
\* result is discarded.
drop_terminate(t, h, res) ==
    /\ Holds(t, h)
    /\ Room
    /\ calls' = Append(calls, NativeCall(KDMAPI.terminate_kdmapi_stream, -1, res, h))
    /\ st' = [st EXCEPT ![h] = "terminated"]
    /\ pc' = [pc EXCEPT ![t] = "drop"]
    /\ UNCHANGED <<is_stream_open, owner, api, overlapped>>
    /\ UNCHANGED loadVars

\* Drop for KDMAPIStream, second step: the relaxed store into the flag.
drop_store(t, h) ==
    /\ pc[t] = "drop"
    /\ st[h] = "terminated"
    /\ owner[h] = t
    /\ is_stream_open' = DropStoreValue
    /\ api' = Append(api, ApiCall("drop", h, -1, "void", FALSE))
    /\ st' = [st EXCEPT ![h] = "dropped"]
    /\ pc' = [pc EXCEPT ![t] = "idle"]
    /\ UNCHANGED <<owner, calls, overlapped>>
    /\ UNCHANGED loadVars

Next ==
    \/ \E t \in Threads, b \in BOOLEAN : is_kdmapi_available(t, b)
    \/ \E t \in Threads : open_stream_load(t)
    \/ \E t \in Threads, r \in InitResults : open_stream_init(t, r)
    \/ \E t \in Threads : CatchUnwind(t)
    \/ \E t \in Threads, h \in Handles : reset(t, h)
    \/ \E t \in Threads, h \in Handles, d \in DataValues, r \in StatusValues :
           send_direct_data(t, h, d, r)
    \/ \E t \in Threads, h \in Handles, d \in DataValues, r \in StatusValues :
           send_direct_data_no_buf(t, h, d, r)
    \/ \E t \in Threads, h \in Handles, r \in TermResults : drop_terminate(t, h, r)
    \/ \E t \in Threads, h \in Handles : drop_store(t, h)

Spec == Init /\ [][Next]_vars

TypeOK ==
    /\ is_stream_open \in BOOLEAN
    /\ pc \in [Threads -> {"idle", "init", "drop", "panicked"}]
    /\ st \in [Handles -> {"none", "alive", "terminated", "dropped"}]
    /\ owner \in [Handles -> Threads \cup {"nobody"}]
    /\ Len(api) <= MaxCalls
    /\ overlapped \in BOOLEAN
    /\ \A i \in 1 .. Len(calls) : calls[i].arg \in DataValues \cup {-1}

----------------------------------------------------------------------------
\* The lazy initialization of the statics (lazy_static!, lib.rs:101-106).

\* Once::call_once runs the initializer only on a Once nobody has run.
CallOnceRunsAgain(once) == once \in {"new", "done"}

CallOnceRuns(once) == once = "new"

\* What the host can be: the library loads or not, and it exports all the
\* symbols or all but one.
Hosts ==
    {[libfile |-> FALSE, exports |-> Symbols]}
        \cup {[libfile |-> TRUE, exports |-> e] :
                 e \in {Symbols} \cup {Symbols \ {x} : x \in Symbols}}

InitLoad ==
    /\ env \in Hosts
    /\ lib_once = "new"
    /\ binds_once = "new"
    /\ table = << >>
    /\ partial = << >>
    /\ lpc = [t \in Threads |-> "out"]
    /\ loader = << >>
    /\ is_stream_open = InitialFlag
    /\ pc = [t \in Threads |-> "idle"]
    /\ st = [h \in Handles |-> "none"]
    /\ owner = [h \in Handles |-> "nobody"]
    /\ calls = << >>
    /\ api = << >>
    /\ overlapped = FALSE

\* A thread touches KDMAPI (Deref of the lazy static): call_once on
\* KDMAPI's Once.
deref_KDMAPI(t) ==
    /\ lpc[t] \in {"out", "got"}
    /\ IF CallOnceRuns(binds_once)
       THEN /\ binds_once' = "running"
            /\ partial' = << >>
            /\ lpc' = [lpc EXCEPT ![t] = "binds_init"]
       ELSE /\ lpc' = [lpc EXCEPT ![t] =
                  CASE binds_once = "running" -> "blocked"
                    [] binds_once = "poisoned" -> "panicked"
                    [] OTHER -> "got"]
            /\ UNCHANGED <<binds_once, partial>>
    /\ UNCHANGED <<env, lib_once, table, loader>>
    /\ UNCHANGED streamVars

\* A thread done with its use of KDMAPI.
leave_KDMAPI(t) ==
    /\ lpc[t] = "got"
    /\ lpc' = [lpc EXCEPT ![t] = "out"]
    /\ UNCHANGED <<env, lib_once, binds_once, table, partial, loader>>
    /\ UNCHANGED streamVars

\* A thread blocked on KDMAPI's Once goes on when the running initializer
\* has ended.
call_once_wake(t) ==
    /\ lpc[t] = "blocked"
    /\ binds_once \in {"done", "poisoned"}
    /\ lpc' = [lpc EXCEPT ![t] = IF binds_once = "done" THEN "got" ELSE "panicked"]
    /\ UNCHANGED <<env, lib_once, binds_once, table, partial, loader>>
    /\ UNCHANGED streamVars

\* KDMAPI's initializer, load_kdmapi_binds(&KDMAPI_LIB), touches
\* KDMAPI_LIB: call_once on its Once.
deref_KDMAPI_LIB(t) ==
    /\ lpc[t] = "binds_init"
    /\ IF CallOnceRuns(lib_once)
       THEN /\ lib_once' = "running"
            /\ lpc' = [lpc EXCEPT ![t] = "lib_init"]
            /\ UNCHANGED binds_once
       ELSE IF lib_once = "done"
       THEN /\ lpc' = [lpc EXCEPT ![t] = "resolving"]
            /\ UNCHANGED <<lib_once, binds_once>>
       ELSE /\ lpc' = [lpc EXCEPT ![t] = "panicked"]
            /\ binds_once' = "poisoned"
            /\ UNCHANGED lib_once
    /\ UNCHANGED <<env, table, partial, loader>>
    /\ UNCHANGED streamVars

\* load_kdmapi_lib: Library::new(...).unwrap()
load_kdmapi_lib(t) ==
    /\ lpc[t] = "lib_init"
    /\ loader' = Append(loader, "Library::new")
    /\ IF env.libfile
       THEN /\ lib_once' = "done"
            /\ lpc' = [lpc EXCEPT ![t] = "resolving"]
            /\ UNCHANGED binds_once
       ELSE /\ lib_once' = "poisoned"
            /\ binds_once' = "poisoned"
            /\ lpc' = [lpc EXCEPT ![t] = "panicked"]
    /\ UNCHANGED <<env, table, partial>>
    /\ UNCHANGED streamVars

\* load_kdmapi_binds: the next lib.get(...).unwrap(); after the last one
\* the KDMAPIBinds value is built and stored in KDMAPI's cell.
load_kdmapi_binds(t) ==
    /\ lpc[t] = "resolving"
    /\ LET next == BindOrder[Len(partial) + 1]
           found == Append(partial, next)
       IN  /\ loader' = Append(loader, next[2])
           /\ IF next[2] \in env.exports
              THEN /\ partial' = found
                   /\ IF Len(found) = Len(BindOrder)
                      THEN /\ table' = <<BuildBinds(found)>>
                           /\ binds_once' = "done"
                           /\ lpc' = [lpc EXCEPT ![t] = "got"]
                      ELSE UNCHANGED <<table, binds_once, lpc>>
              ELSE /\ partial' = << >>
                   /\ binds_once' = "poisoned"
                   /\ lpc' = [lpc EXCEPT ![t] = "panicked"]
                   /\ UNCHANGED table
    /\ UNCHANGED <<env, lib_once>>
    /\ UNCHANGED streamVars

NextLoad ==
    \/ \E t \in Threads : deref_KDMAPI(t)
    \/ \E t \in Threads : leave_KDMAPI(t)
    \/ \E t \in Threads : call_once_wake(t)
    \/ \E t \in Threads : deref_KDMAPI_LIB(t)
    \/ \E t \in Threads : load_kdmapi_lib(t)
    \/ \E t \in Threads : load_kdmapi_binds(t)

SpecLoad == InitLoad /\ [][NextLoad]_vars

TypeOKLoad ==
    /\ env \in Hosts
    /\ lib_once \in {"new", "running", "done", "poisoned"}
    /\ binds_once \in {"new", "running", "done", "poisoned"}
    /\ Len(table) <= 1
    /\ Len(partial) <= Len(BindOrder)
    /\ lpc \in [Threads -> {"out", "binds_init", "lib_init", "resolving",
                            "blocked", "got", "panicked"}]

----------------------------------------------------------------------------
\* Derived state.

\* The handles that exist: constructed by open_stream, drop not yet returned.
Live == {h \in Handles : st[h] \in {"alive", "terminated"}}

\* The last element of a non-empty sequence.
Last(s) == s[Len(s)]

\* The steps of the API, recognised from a pair of states.
OpenLoadStep(t) == pc[t] = "idle" /\ pc'[t] \in {"init", "panicked"}
OpenInitStep(t) == pc[t] = "init" /\ pc'[t] # "init"
ReleaseStep(h) == st[h] = "terminated" /\ st'[h] = "dropped"
Returned(op) == Len(api') = Len(api) + 1 /\ Last(api').op = op

\* The native terminate calls made for handle h.
TermCalls(h) ==
    {i \in 1 .. Len(calls) :
        calls[i].fn = "TerminateKDMAPIStream" /\ calls[i].via = h}

\* The native calls made through handle h, in order.
CallsVia(h) == SelectSeq(calls, LAMBDA c : c.via = h)

\* The API calls made on handle h, in order of their return.
ApiOn(h) == SelectSeq(api, LAMBDA a : a.h = h)

\* The native library's stream, as its interface describes it: opened by
\* an InitializeKDMAPIStream that returns non-zero, closed by
\* TerminateKDMAPIStream.
NativeStreamOpenIn(cs) ==
    LET sc == {i \in 1 .. Len(cs) :
                  \/ cs[i].fn = "TerminateKDMAPIStream"
                  \/ (cs[i].fn = "InitializeKDMAPIStream" /\ cs[i].res # 0)}
    IN  /\ sc # {}
        /\ cs[CHOOSE i \in sc : \A j \in sc : j <= i].fn = "InitializeKDMAPIStream"

NativeStreamOpen == NativeStreamOpenIn(calls)

----------------------------------------------------------------------------
\* C1: at most one stream handle is alive at any time; open_stream while a
\* handle is alive does not yield a second handle.
C1_AtMostOneStream ==
    /\ [](Cardinality(Live) <= 1)
    /\ [][\A t \in Threads :
            (OpenLoadStep(t) /\ Live # {}) => pc'[t] = "panicked"]_vars

\* C2: the is_stream_open flag is true if and only if exactly one stream
\* handle is alive.
C2_FlagIffOneStream == is_stream_open <=> (Cardinality(Live) = 1)

\* C3: the step that releases a handle leaves the flag false; an
\* open_stream after a release passes the flag check, and it returns a new
\* handle whenever the native initialize returns a non-zero result.
C3_ReopenAfterRelease ==
    [][ /\ \A h \in Handles : ReleaseStep(h) => is_stream_open' = FALSE
        /\ \A t \in Threads :
              (OpenLoadStep(t) /\ \E h \in Handles : st[h] = "dropped")
                  => pc'[t] = "init"
        /\ \A t \in Threads :
              (OpenInitStep(t) /\ Last(calls').res # 0)
                  => /\ pc'[t] = "idle"
                     /\ ~Last(api').panic
                     /\ st[Last(api').out] = "none"
                     /\ st'[Last(api').out] = "alive"
      ]_vars

\* A handle was released and a later open_stream returned a handle that is
\* alive, the native initialize having returned a negative (non-zero) result.
C3_Witness ==
    \E i, j \in 1 .. Len(api) :
        /\ i < j
        /\ api[i].op = "drop"
        /\ api[j].op = "open_stream" /\ ~api[j].panic
        /\ st[api[j].out] = "alive"
        /\ \E k \in 1 .. Len(calls) :
              /\ calls[k].fn = "InitializeKDMAPIStream"
              /\ calls[k].via = api[j].out
              /\ calls[k].res = -1
        /\ ~is_stream_open

\* C4: a handle being destroyed has had the native terminate called exactly
\* once, whatever that call returned the store into the flag follows, the
\* store comes after the call and writes false, and a handle not yet being
\* destroyed has had no terminate call.
C4_TerminateOncePerHandle ==
    /\ [](\A h \in Handles :
            /\ st[h] \in {"none", "alive"} => TermCalls(h) = {}
            /\ st[h] \in {"terminated", "dropped"} => Cardinality(TermCalls(h)) = 1
            /\ st[h] = "terminated" => ENABLED drop_store(owner[h], h))
    /\ [](Cardinality({i \in 1 .. Len(calls) : calls[i].fn = "TerminateKDMAPIStream"})
            = Cardinality({h \in Handles : st[h] \in {"terminated", "dropped"}}))
    /\ [][\A h \in Handles :
            ReleaseStep(h) =>
                /\ Cardinality(TermCalls(h)) = 1
                /\ calls' = calls
                /\ is_stream_open' = FALSE]_vars

\* Two handles were destroyed, the native terminate having returned 0 for
\* one and 1 for the other.
C4_Witness ==
    \E i, j \in 1 .. Len(calls) :
        /\ calls[i].fn = "TerminateKDMAPIStream" /\ calls[i].res = 0
        /\ calls[j].fn = "TerminateKDMAPIStream" /\ calls[j].res = 1
        /\ st[calls[i].via] = "dropped"
        /\ st[calls[j].via] = "dropped"

\* C5: when the native initialize returns 0, open_stream panics: the
\* initialize call is the only native call made, no handle is constructed
\* and the handles are as before.
C5_InitFailureIsFatal ==
    [][\A t \in Threads :
          (OpenInitStep(t) /\ Last(calls').res = 0)
              => /\ pc'[t] = "panicked"
                 /\ Returned("open_stream") /\ Last(api').panic
                 /\ calls' = Append(calls,
                        NativeCall("InitializeKDMAPIStream", -1, 0, 0))
                 /\ st' = st
                 /\ owner' = owner
      ]_vars

\* An open_stream has just panicked on a zero result of the native
\* initialize, while another handle is alive.
C5_Witness ==
    /\ \E t \in Threads : pc[t] = "panicked"
    /\ calls # << >>
    /\ Last(calls).fn = "InitializeKDMAPIStream" /\ Last(calls).res = 0
    /\ Last(api).op = "open_stream" /\ Last(api).panic
    /\ \E h \in Handles : st[h] = "alive"

\* C7: send_direct_data(v) makes exactly one native call, to SendDirectData
\* with argument v, and returns its result; send_direct_data_no_buf(v) does
\* the same with SendDirectDataNoBuf.
C7_SendPassthrough ==
    [][ /\ Returned("send_direct_data") =>
              calls' = Append(calls,
                  NativeCall("SendDirectData", Last(api').arg, Last(api').out,
                             Last(api').h))
        /\ Returned("send_direct_data_no_buf") =>
              calls' = Append(calls,
                  NativeCall("SendDirectDataNoBuf", Last(api').arg, Last(api').out,
                             Last(api').h))
      ]_vars

\* Both wrappers were called with 0x7F4090 and returned different results:
\* send_direct_data the native 0x12345678, send_direct_data_no_buf 0.
C7_Witness ==
    \E i, j \in 1 .. Len(api) :
        /\ api[i].op = "send_direct_data"
        /\ api[i].arg = 8339600 /\ api[i].out = 305419896
        /\ api[j].op = "send_direct_data_no_buf"
        /\ api[j].arg = 8339600 /\ api[j].out = 0

\* C8: is_kdmapi_available makes exactly one native call, to
\* IsKDMAPIAvailable, returns its boolean, does not panic, and changes
\* neither the flag, nor the handles, nor the native stream, nor where any
\* thread is.
C8_AvailablePassthrough ==
    [][Returned("is_kdmapi_available") =>
          /\ calls' = Append(calls,
                 NativeCall("IsKDMAPIAvailable", -1, Last(api').out, 0))
          /\ Last(api').out \in BOOLEAN
          /\ ~Last(api').panic
          /\ NativeStreamOpenIn(calls') = NativeStreamOpen
          /\ UNCHANGED <<is_stream_open, pc, st, owner>>
      ]_vars

\* is_kdmapi_available returned false with a stream open, after having
\* returned true with none open.
C8_Witness ==
    /\ Len(api) >= 3
    /\ api[1].op = "is_kdmapi_available" /\ api[1].out = TRUE
    /\ Last(api).op = "is_kdmapi_available" /\ Last(api).out = FALSE
    /\ Live # {}
    /\ NativeStreamOpen

\* What each call on a handle is to reach the native library as.
NativeOf(op) ==
    CASE op = "open_stream" -> "InitializeKDMAPIStream"
      [] op = "reset" -> "ResetKDMAPIStream"
      [] op = "send_direct_data" -> "SendDirectData"
      [] op = "send_direct_data_no_buf" -> "SendDirectDataNoBuf"
      [] op = "drop" -> "TerminateKDMAPIStream"

\* C9: the native calls of one handle lifetime are one successful
\* initialize, then the reset and send calls in the order the caller made
\* them, then (once the handle is being destroyed) one terminate, and
\* nothing after it.
C9_LifetimeTrace ==
    \A h \in Handles :
        LET cs == CallsVia(h)
            as == ApiOn(h)
            n  == Len(cs)
            ended == st[h] \in {"terminated", "dropped"}
            ops == IF ended THEN 2 .. n - 1 ELSE 2 .. n
        IN  /\ st[h] = "none" => cs = << >>
            /\ st[h] # "none" =>
                  /\ n >= 1
                  /\ cs[1].fn = "InitializeKDMAPIStream" /\ cs[1].res # 0
                  /\ \A i \in ops :
                        cs[i].fn \in {"ResetKDMAPIStream", "SendDirectData",
                                      "SendDirectDataNoBuf"}
                  /\ ended => (n >= 2 /\ cs[n].fn = "TerminateKDMAPIStream")
                  /\ Len(as) = IF st[h] = "terminated" THEN n - 1 ELSE n
                  /\ \A i \in 1 .. Len(as) :
                        /\ cs[i].fn = NativeOf(as[i].op)
                        /\ cs[i].arg = as[i].arg

\* The only calls were: open_stream, reset, release of the handle; the
\* native side recorded initialize, reset, terminate, in that order.
C9_Witness ==
    /\ Len(api) = 3
    /\ api[1].op = "open_stream" /\ api[2].op = "reset" /\ api[3].op = "drop"
    /\ Len(calls) = 3
    /\ calls[1].fn = "InitializeKDMAPIStream"
    /\ calls[2].fn = "ResetKDMAPIStream"
    /\ calls[3].fn = "TerminateKDMAPIStream"
    /\ ~api[1].panic
    /\ st[api[1].out] = "dropped"

\* The closed state of the binding table.
Closed ==
    /\ is_stream_open = FALSE
    /\ Live = {}
    /\ ~NativeStreamOpen

\* C10: whenever no handle exists, however many open/close cycles have
\* completed, the table is in the closed state it started in; from there
\* open_stream passes the flag check, and returns a handle when the native
\* initialize returns non-zero.
C10_CyclesRepeat ==
    /\ []((Live = {}) => Closed)
    /\ [][\A t \in Threads :
            /\ (OpenLoadStep(t) /\ Live = {}) => pc'[t] = "init"
            /\ (OpenInitStep(t) /\ Live = {} /\ Last(calls').res # 0)
                  => (Returned("open_stream") /\ Live' = {Last(api').out})
         ]_vars

\* Two open/close cycles have completed one after the other, and the table
\* is closed.
C10_Witness ==
    /\ Len(api) = 4
    /\ api[1].op = "open_stream" /\ ~api[1].panic
    /\ api[2].op = "drop" /\ api[2].h = api[1].h
    /\ api[3].op = "open_stream" /\ ~api[3].panic
    /\ api[4].op = "drop" /\ api[4].h = api[3].h
    /\ api[3].h # api[1].h
    /\ Len(calls) = 4
    /\ Closed

\* C11: the flag is false in every reachable state, also while a handle is
\* alive: it starts false, and neither step of open_stream changes it.
C11_FlagNeverTrue ==
    /\ [](is_stream_open = FALSE)
    /\ [][\A t \in Threads :
            (OpenLoadStep(t) \/ OpenInitStep(t)) => is_stream_open' = is_stream_open
         ]_vars

\* open_stream has returned two handles, one is released and one is alive,
\* and the flag is false.
C11_Witness ==
    /\ \E h \in Handles : st[h] = "alive"
    /\ \E h \in Handles : st[h] = "dropped"
    /\ is_stream_open = FALSE

\* C12: the flag load and the native initialize are separate steps.  A
\* thread that has loaded the flag as false makes the native call whatever
\* other threads did in between, and a non-zero result gives it a handle in
\* addition to the handles that exist; so two threads that both load before
\* either returns end with two handles alive.
C12_CheckThenInitNotAtomic ==
    /\ [](\A t \in Threads : pc[t] = "init" => ENABLED open_stream_init(t, 1))
    /\ [][\A t \in Threads :
            (OpenInitStep(t) /\ Last(calls').res # 0)
                => /\ Returned("open_stream") /\ ~Last(api').panic
                   /\ Last(api').out \notin Live
                   /\ Live' = Live \cup {Last(api').out}
                   /\ \A u \in Threads \ {t} : pc[u] = "init" => pc'[u] = "init"
         ]_vars

\* Two threads each called open_stream once and nothing else happened: both
\* loaded the flag before either native initialize call, both calls were
\* made, and the two handles are alive at once.
C12_Witness ==
    /\ overlapped
    /\ \A t \in Threads : pc[t] = "idle"
    /\ Len(api) = 2 /\ Len(calls) = 2
    /\ \A i \in 1 .. 2 : calls[i].fn = "InitializeKDMAPIStream"
    /\ \E g, h \in Handles :
          /\ st[g] = "alive" /\ st[h] = "alive"
          /\ owner[g] # owner[h]
    /\ is_stream_open = FALSE

\* Some open_stream has panicked on a zero result of the native initialize.
InitFailurePanicked ==
    \E i \in 1 .. Len(calls) :
        calls[i].fn = "InitializeKDMAPIStream" /\ calls[i].res = 0

\* C13 as stated: once open_stream has panicked on a failed native
\* initialize the flag is true and stays true, so every later open_stream
\* panics at the flag check.
C13_FlagStuckAfterInitFailure ==
    /\ [](InitFailurePanicked => is_stream_open = TRUE)
    /\ [][\A t \in Threads :
            (OpenLoadStep(t) /\ InitFailurePanicked) => pc'[t] = "panicked"
         ]_vars

\* C13 as amended: the failure path of open_stream does not touch the flag,
\* which is false before and after it; a later open_stream passes the flag
\* check.
C13_InitFailureLeavesFlagFalse ==
    [][\A t \in Threads :
          /\ (OpenInitStep(t) /\ Last(calls').res = 0)
                => (is_stream_open' = is_stream_open /\ is_stream_open' = FALSE)
          /\ (OpenLoadStep(t) /\ InitFailurePanicked) => pc'[t] = "init"
      ]_vars

\* An open_stream panicked on a failed native initialize, the panic was
\* caught, and the next open_stream returned a handle, which is alive.
C13_Witness ==
    /\ \A t \in Threads : pc[t] = "idle"
    /\ Len(api) = 2 /\ Len(calls) = 2
    /\ api[1].op = "open_stream" /\ api[1].panic
    /\ calls[1].fn = "InitializeKDMAPIStream" /\ calls[1].res = 0
    /\ api[2].op = "open_stream" /\ ~api[2].panic
    /\ st[api[2].out] = "alive"
    /\ ~overlapped
    /\ is_stream_open = FALSE

----------------------------------------------------------------------------
\* The claims about the lazy initialization, checked under SpecLoad.

\* How often x was loaded or looked up.
Times(x) == Cardinality({i \in 1 .. Len(loader) : loader[i] = x})

\* The threads running an initializer.
Initializing == {t \in Threads : lpc[t] \in {"binds_init", "lib_init", "resolving"}}

\* C14: the library is loaded and each symbol looked up at most once, by
\* one thread at a time and not before the first access; once the binding
\* table exists the library was loaded and each symbol looked up exactly
\* once, in order, and from then on the table never changes and nothing is
\* loaded or looked up again.
C14_LoadedOnce ==
    /\ [](\A x \in Symbols \cup {"Library::new"} : Times(x) <= 1)
    /\ [](Cardinality(Initializing) <= 1)
    /\ []((\A t \in Threads : lpc[t] = "out") /\ binds_once = "new"
              => (loader = << >> /\ lib_once = "new" /\ table = << >>))
    /\ [](table # << >> =>
              /\ loader = <<"Library::new">>
                     \o [i \in 1 .. Len(BindOrder) |-> BindOrder[i][2]]
              /\ binds_once = "done" /\ lib_once = "done")
    /\ [][table # << >> => (table' = table /\ loader' = loader)]_vars

\* Both threads made the first access together: one ran the initializers
\* and holds the table, the other is still blocked on the Once.
C14_Witness ==
    /\ table # << >>
    /\ \E t, u \in Threads : lpc[t] = "got" /\ lpc[u] = "blocked"
    /\ Times("Library::new") = 1
    /\ \A x \in Symbols : Times(x) = 1

\* C15: a binding table is observable only complete: with all six bindings
\* on their symbols and the flag false, and only on a host whose library
\* loads and exports all six.  A failed load or lookup is the last thing
\* the loader does: the Once stays poisoned, nothing is retried, and no
\* thread ever gets a table.
C15_AllOrNothing ==
    /\ [](table # << >> =>
              /\ table = <<[binds |-> KDMAPI, is_stream_open |-> FALSE]>>
              /\ env.libfile /\ env.exports = Symbols)
    /\ [](\A t \in Threads : lpc[t] = "got" => table # << >>)
    /\ []((~env.libfile \/ env.exports # Symbols) => table = << >>)
    /\ [](binds_once = "poisoned" =>
              /\ table = << >>
              /\ Initializing = {}
              /\ IF env.libfile
                 THEN /\ Last(loader) \notin env.exports
                      /\ \A i \in 2 .. Len(loader) - 1 : loader[i] \in env.exports
                 ELSE loader = <<"Library::new">>)
    /\ [][binds_once = "poisoned" =>
              (binds_once' = "poisoned" /\ loader' = loader /\ table' = table)]_vars

\* The library lacks TerminateKDMAPIStream: the third lookup panicked, and
\* both threads' accesses have panicked, the second without a new lookup.
C15_Witness ==
    /\ env.libfile /\ env.exports = Symbols \ {"TerminateKDMAPIStream"}
    /\ binds_once = "poisoned"
    /\ loader = <<"Library::new", "IsKDMAPIAvailable", "InitializeKDMAPIStream",
                  "TerminateKDMAPIStream">>
    /\ \A t \in Threads : lpc[t] = "panicked"
    /\ table = << >>

----------------------------------------------------------------------------
\* C16: reset, send_direct_data and send_direct_data_no_buf are callable
\* whenever the caller holds the handle, each makes exactly one native call,
\* to its own function, and changes neither the flag, nor the handles, nor
\* where any thread is; reset returns nothing and none of them panics.
C16_StreamCallsFrame ==
    /\ [](\A t \in Threads, h \in Handles :
            (Holds(t, h) /\ Room) =>
                /\ ENABLED reset(t, h)
                /\ ENABLED send_direct_data(t, h, 0, 0)
                /\ ENABLED send_direct_data_no_buf(t, h, 0, 0))
    /\ [][ /\ Returned("reset") =>
                 /\ calls' = Append(calls,
                        NativeCall("ResetKDMAPIStream", -1, "void", Last(api').h))
                 /\ Last(api').out = "void"
           /\ (Returned("reset") \/ Returned("send_direct_data")
                  \/ Returned("send_direct_data_no_buf")) =>
                 /\ Len(calls') = Len(calls) + 1
                 /\ SubSeq(calls', 1, Len(calls)) = calls
                 /\ Last(calls').fn = NativeOf(Last(api').op)
                 /\ ~Last(api').panic
                 /\ st[Last(api').h] = "alive"
                 /\ UNCHANGED <<is_stream_open, pc, st, owner>>
         ]_vars

\* reset, send_direct_data and send_direct_data_no_buf were called on one
\* handle, which is alive, and three native calls followed the initialize.
C16_Witness ==
    /\ Len(api) = 4 /\ Len(calls) = 4
    /\ api[1].op = "open_stream" /\ ~api[1].panic
    /\ st[api[1].out] = "alive"
    /\ api[2].op = "reset" /\ calls[2].fn = "ResetKDMAPIStream"
    /\ api[3].op = "send_direct_data" /\ calls[3].fn = "SendDirectData"
    /\ api[4].op = "send_direct_data_no_buf" /\ calls[4].fn = "SendDirectDataNoBuf"
    /\ \A i \in 2 .. 4 : api[i].h = api[1].out
    /\ is_stream_open = FALSE

\* The successful native initialize calls and the native terminate calls.
InitOkCalls ==
    {i \in 1 .. Len(calls) :
        calls[i].fn = "InitializeKDMAPIStream" /\ calls[i].res # 0}

AllTermCalls == {i \in 1 .. Len(calls) : calls[i].fn = "TerminateKDMAPIStream"}

\* C17: the handles alive (not yet in their drop) are as many as the
\* successful native initialize calls less the native terminate calls;
\* every terminate call is for a handle whose successful initialize came
\* before it, and no handle has two.
C17_InitTerminateBalanced ==
    /\ Cardinality({h \in Handles : st[h] = "alive"})
          = Cardinality(InitOkCalls) - Cardinality(AllTermCalls)
    /\ \A i \in AllTermCalls :
          /\ calls[i].via \in Handles
          /\ \E j \in InitOkCalls : j < i /\ calls[j].via = calls[i].via
          /\ \A k \in AllTermCalls : calls[k].via = calls[i].via => k = i

\* Two successful initialize calls (one returning -1), a failed one and one
\* terminate call have been made: one handle is alive.
C17_Witness ==
    /\ Cardinality(InitOkCalls) = 2
    /\ Cardinality(AllTermCalls) = 1
    /\ InitFailurePanicked
    /\ Cardinality({h \in Handles : st[h] = "alive"}) = 1
    /\ \E i \in InitOkCalls : calls[i].res = -1

\* Only one thread has ever held a handle: the native stream calls were
\* made one after the other by that thread.
SingleThreaded ==
    \E t \in Threads : \A h \in Handles : st[h] # "none" => owner[h] = t

\* C18: in a single-threaded run, every native reset or send call comes
\* after a successful native initialize call with no native terminate call
\* between the two.
C18_NoCallOnClosedStream ==
    SingleThreaded =>
        \A i \in 1 .. Len(calls) :
            calls[i].fn \in {"ResetKDMAPIStream", "SendDirectData",
                             "SendDirectDataNoBuf"}
                => \E j \in InitOkCalls :
                      /\ j < i
                      /\ \A k \in AllTermCalls : ~(j < k /\ k < i)

====
